---------------------------- MODULE Spec2Model ----------------------------
(***************************************************************************)
(* Model of contrib/opentenbase_ai: the batch queue, its dispatch thread   *)
(* and the libcurl fan-out (ai.c), and the SQL-backed result cache         *)
(* (ai_cache_enhancement.c).                                               *)
(*                                                                         *)
(* Spec      : the batch engine of ai.c (callers, batch_processor thread,  *)
(*             process_batch_requests_enhanced) over a discrete clock.     *)
(* FairSpec  : Spec with time, worker and callers scheduled fairly.        *)
(* ConfigSpec: ai_configure_batch.                                         *)
(* CacheSpec : the result cache helpers of ai_cache_enhancement.c.         *)
(* SubmitSpec, BatchSubmitSpec : ai_invoke_model_cached and                *)
(*             ai_batch_invoke_cached, each with ai_cache_clear.           *)
(*                                                                         *)
(* Every critical section of ai.c (code between pthread_mutex_lock /       *)
(* pthread_cond_timedwait return and the next unlock / wait) is one        *)
(* action; every access made outside the mutex is an action of its own.    *)
(***************************************************************************)
EXTENDS Integers, Sequences, FiniteSets, TLC

(***************************************************************************)
(* Bounds of the model.                                                    *)
(***************************************************************************)
NumCallers == 2        \* backends calling ai_batch_invoke, one request each
MaxBatchSize == 3      \* batch_size is drawn from 1..MaxBatchSize
BatchTimeout == 1      \* batch_timeout_ms (line 21), in clock ticks
WaitCeiling == 2       \* the 30 s of line 404, in clock ticks
MaxDbTime == 2         \* now() of the database stops here
MaxTtl == 1            \* ttl_seconds is drawn from 0..MaxTtl
MaxAccess == 2         \* a row is stored again while access_count < MaxAccess
NumArgs == 3           \* distinct argument documents
NumInputs == 2         \* distinct input texts of ai_batch_invoke_cached
MaxInputs == 2         \* longest input array of ai_batch_invoke_cached
MaxRequests == 2       \* submits are made while total_requests <= MaxRequests
MaxBatchTotal == 4     \* batch submits while total_requests <= MaxBatchTotal
MaxBatchCalls == 2     \* and batch_requests <= MaxBatchCalls

(***************************************************************************)
(* Program constants.                                                      *)
(***************************************************************************)
Worker == 0            \* thread id of batch_processor
NoThread == 99         \* mutex not held
ETIMEDOUT == 110       \* pthread_cond_timedwait: deadline passed
NULL == 0              \* a NULL char* (result, error_msg)
EmptyData == 1         \* responses[i].data as malloc'ed: no byte received
ModelNotFound == 2     \* strdup("Model not found")

Callers == 1..NumCallers
Threads == {Worker} \cup Callers

\* model names a caller may pass; only KnownModels have a row in
\* public.ai_model_list
Models == {"m1", "nomodel"}
KnownModels == {"m1"}

\* the body the endpoint returns for the call made for request id
Resp(id) == 10 + id

VARIABLES
  batch_size,      \* static int batch_size
  batch_timeout_ms,         \* static int batch_timeout_ms
  max_concurrent_requests,  \* static int max_concurrent_requests
  requests,        \* ctx->requests: the linked list, head first (request ids)
  request_count,   \* ctx->request_count
  processing,      \* ctx->processing
  mutex,           \* ctx->mutex: its owner, or NoThread
  waiters,         \* threads parked on ctx->condition
  workerPc,        \* position of batch_processor
  workerWait,      \* wait_result of batch_processor
  workerLeft,      \* ticks until the timeout of batch_processor's wait
  req_array,       \* req_array: the copies made at flush start
  execCount,       \* count argument of process_batch_requests_enhanced
  calls,           \* per batch index: state of the curl easy handle
  pc,              \* position of each caller in ai_batch_invoke
  callerWait,      \* wait_result of each caller
  reqModel,        \* new_request->model_name
  reqCompleted,    \* new_request->completed
  reqResult,       \* new_request->result
  reqError,        \* new_request->error_msg
  freed,           \* requests whose memory the caller has freed
  returned,        \* what ai_batch_invoke returned to each caller
  waitLeft,        \* ticks until each caller's timeout (30 s after enqueue)
  batchOf,         \* history: number of the flush whose snapshot holds it
  dbNow,           \* now() of the database session
  result_cache,    \* table ai.result_cache, by (model_name, args_hash)
  cache_stats,     \* the row of table ai.cache_stats
  lastOp,          \* the last SQL-level call and what it returned
  enable_ai_result_cache,  \* static bool enable_ai_result_cache (a GUC)
  stored           \* history: per key, the last payload stored, its expiry
                   \* and the arguments of the call that stored it

\* the settings ai_configure_batch writes besides batch_size; the engine
\* below runs with the timeout it was started with (BatchTimeout ticks)
gucVars == <<batch_timeout_ms, max_concurrent_requests>>

batchVars == <<gucVars, batch_size, requests, request_count, processing, mutex,
               waiters, workerPc, workerWait, workerLeft, req_array,
               execCount, calls, pc, callerWait, reqModel, reqCompleted,
               reqResult, reqError, freed, returned, waitLeft, batchOf>>

cacheVars == <<dbNow, result_cache, cache_stats, lastOp, stored,
               enable_ai_result_cache>>

vars == <<batchVars, cacheVars>>

(***************************************************************************)
(* The tables of ai_cache_enhancement.c.  A key is (model_name,            *)
(* args_hash), the conflict target of the INSERT of line 436.              *)
(***************************************************************************)
CacheModels == {"m1"}
Hashes == {"h1", "h2"}
Keys == CacheModels \X Hashes
Payloads == {21, 23}
NoRow == [present |-> FALSE]
NoStore == [present |-> FALSE]
NoOp == [op |-> "none"]
ZeroStats == [total_requests |-> 0, cache_hits |-> 0, cache_misses |-> 0,
              batch_requests |-> 0, current_entries |-> 0]

\* the GUC is set before the session's first call
CacheInit ==
  /\ enable_ai_result_cache \in BOOLEAN
  /\ dbNow = 0
  /\ result_cache = [k \in Keys |-> NoRow]
  /\ cache_stats = ZeroStats
  /\ lastOp = NoOp
  /\ stored = [k \in Keys |-> NoStore]

(***************************************************************************)
(* init_batch_context, and the GUC batch_size (range 1..100, here          *)
(* 1..MaxBatchSize).                                                       *)
(***************************************************************************)
BatchInit ==
  /\ batch_size \in 1..MaxBatchSize
  /\ requests = <<>>
  /\ request_count = 0
  /\ processing = FALSE
  /\ mutex = NoThread
  /\ waiters = {}
  /\ workerPc = "start"
  /\ workerWait = 0
  /\ workerLeft = 0
  /\ req_array = <<>>
  /\ execCount = 0
  /\ calls = <<>>
  /\ pc = [c \in Callers |-> "idle"]
  /\ callerWait = [c \in Callers |-> 0]
  /\ reqModel = [c \in Callers |-> "m1"]
  /\ reqCompleted = [c \in Callers |-> FALSE]
  /\ reqResult = [c \in Callers |-> NULL]
  /\ reqError = [c \in Callers |-> NULL]
  /\ freed = {}
  /\ returned = [c \in Callers |-> NULL]
  /\ waitLeft = [c \in Callers |-> 0]
  /\ batchOf = [c \in Callers |-> 0]

\* lines 21-22
GucInit ==
  /\ batch_timeout_ms = 500
  /\ max_concurrent_requests = 50

\* the batch engine runs under the boot value of line 34
Init == BatchInit /\ GucInit /\ CacheInit /\ enable_ai_result_cache

ctxVars == <<requests, request_count, processing>>
workerVars == <<workerPc, workerWait, workerLeft>>
execVars == <<req_array, execCount, calls>>
callerVars == <<pc, callerWait>>
reqVars == <<reqModel, reqCompleted, reqResult, reqError>>
histVars == <<waitLeft, batchOf>>

(***************************************************************************)
(* pthread_cond_signal wakes one thread parked on the condition, whichever *)
(* it is (the batch_processor and the callers wait on the same one), and   *)
(* nothing when none is parked.  pthread_cond_broadcast wakes them all.    *)
(***************************************************************************)
SignalSets(W) == IF W = {} THEN {{}} ELSE {{t} : t \in W}

\* pc and wait_result of the callers after the threads of S were woken and
\* caller self moved to selfPc
PcAfterWake(S, self, selfPc) ==
  [d \in Callers |-> IF d = self THEN selfPc
                     ELSE IF d \in S THEN "woken" ELSE pc[d]]

CallerWaitAfterWake(S) ==
  [d \in Callers |-> IF d \in S THEN 0 ELSE callerWait[d]]

(***************************************************************************)
(* The clock (CLOCK_REALTIME).  The absolute timeouts of lines 178-183 and *)
(* 402-404 are kept as the ticks left until they are reached; a tick       *)
(* brings every pending timeout one tick closer.                           *)
(***************************************************************************)
Dec(n) == IF n > 0 THEN n - 1 ELSE 0

Tick ==
  /\ workerLeft > 0 \/ \E c \in Callers : waitLeft[c] > 0
  /\ workerLeft' = Dec(workerLeft)
  /\ waitLeft' = [c \in Callers |-> Dec(waitLeft[c])]
  /\ UNCHANGED <<cacheVars, gucVars, batch_size, mutex, waiters, freed, returned, ctxVars,
                 workerPc, workerWait, execVars, callerVars, reqVars,
                 batchOf>>

(***************************************************************************)
(* ai_batch_invoke, lines 367-404: build the request, append it to the     *)
(* list under the mutex, count it, signal when the count reaches           *)
(* batch_size, unlock, and fix the 30 s deadline.  Walking a list that     *)
(* holds a freed node (lines 385-388) is undefined: the walk either works  *)
(* as if the node were intact or the backend crashes.                      *)
(***************************************************************************)
ListHasFreed == \E i \in 1..Len(requests) : requests[i] \in freed

EnqueueSignal(n) == n >= batch_size

C_Enqueue(c, m) ==
  /\ pc[c] = "idle"
  /\ mutex = NoThread
  /\ reqModel' = [reqModel EXCEPT ![c] = m]
  /\ requests' = Append(requests, c)
  /\ request_count' = request_count + 1
  /\ \E S \in (IF EnqueueSignal(request_count + 1)
               THEN SignalSets(waiters) ELSE {{}}) :
       /\ waiters' = waiters \ S
       /\ pc' = PcAfterWake(S, c, "enqueued")
       /\ callerWait' = CallerWaitAfterWake(S)
       /\ workerPc' = IF Worker \in S THEN "woken" ELSE workerPc
       /\ workerWait' = IF Worker \in S THEN 0 ELSE workerWait
  /\ mutex' = NoThread
  /\ waitLeft' = [waitLeft EXCEPT ![c] = WaitCeiling]
  /\ UNCHANGED <<cacheVars, gucVars, batch_size, processing, workerLeft, execVars,
                 reqCompleted, reqResult, reqError, freed, returned,
                 batchOf>>

C_EnqueueCrash(c, m) ==
  /\ pc[c] = "idle"
  /\ mutex = NoThread
  /\ ListHasFreed
  /\ reqModel' = [reqModel EXCEPT ![c] = m]
  /\ pc' = [pc EXCEPT ![c] = "crashed"]
  /\ UNCHANGED <<cacheVars, gucVars, batch_size, mutex, waiters, freed, returned, ctxVars,
                 workerVars, execVars, callerWait, reqCompleted,
                 reqResult, reqError, histVars>>

(***************************************************************************)
(* ai_batch_invoke, lines 406-425: the wait loop, evaluated with the mutex *)
(* held on entry and after each return of pthread_cond_timedwait.          *)
(***************************************************************************)
StayInLoop(c) == ~reqCompleted[c] /\ ~processing

\* the loop condition holds: park on the condition (releases the mutex)
C_Wait(c) ==
  /\ pc[c] \in {"enqueued", "woken"}
  /\ mutex = NoThread
  /\ ~(pc[c] = "woken" /\ callerWait[c] = ETIMEDOUT)
  /\ StayInLoop(c)
  /\ pc' = [pc EXCEPT ![c] = "waiting"]
  /\ callerWait' = [callerWait EXCEPT ![c] = 0]
  /\ waiters' = waiters \cup {c}
  /\ mutex' = NoThread
  /\ UNCHANGED <<cacheVars, gucVars, batch_size, freed, returned, ctxVars, workerVars,
                 execVars, reqVars, histVars>>

\* faulty variant: the timeout branch unlinks the abandoned request
TimeoutEffectDequeue(c) ==
  /\ mutex' = NoThread
  /\ returned' = [returned EXCEPT ![c] = ETIMEDOUT]
  /\ requests' = SelectSeq(requests, LAMBDA r : r # c)
  /\ request_count' = Len(SelectSeq(requests, LAMBDA r : r # c))
  /\ UNCHANGED <<processing, execVars, freed, reqVars>>

\* lines 412-416: the wait returned ETIMEDOUT
TimeoutEffect(c) ==
  /\ mutex' = NoThread
  /\ returned' = [returned EXCEPT ![c] = ETIMEDOUT]
  /\ UNCHANGED <<ctxVars, execVars, freed, reqVars>>

C_Timeout(c) ==
  /\ pc[c] = "woken"
  /\ callerWait[c] = ETIMEDOUT
  /\ mutex = NoThread
  /\ pc' = [pc EXCEPT ![c] = "timeout"]
  /\ TimeoutEffect(c)
  /\ callerWait' = [callerWait EXCEPT ![c] = 0]
  /\ waitLeft' = [waitLeft EXCEPT ![c] = 0]
  /\ UNCHANGED <<cacheVars, gucVars, batch_size, waiters, workerVars, batchOf>>

\* lines 419-425: the loop condition fails; take the result and unlock
C_Leave(c) ==
  /\ pc[c] \in {"enqueued", "woken"}
  /\ mutex = NoThread
  /\ ~(pc[c] = "woken" /\ callerWait[c] = ETIMEDOUT)
  /\ ~StayInLoop(c)
  /\ returned' = [returned EXCEPT ![c] =
                    IF reqCompleted[c] /\ reqResult[c] # NULL
                    THEN reqResult[c] ELSE NULL]
  /\ pc' = [pc EXCEPT ![c] = "cleanup"]
  /\ callerWait' = [callerWait EXCEPT ![c] = 0]
  /\ mutex' = NoThread
  /\ UNCHANGED <<cacheVars, gucVars, batch_size, waiters, freed, ctxVars, workerVars,
                 execVars, reqVars, histVars>>

\* lines 427-441: free the request (mutex not held) and return
C_Cleanup(c) ==
  /\ pc[c] = "cleanup"
  /\ freed' = freed \cup {c}
  /\ pc' = [pc EXCEPT ![c] = "done"]
  /\ waitLeft' = [waitLeft EXCEPT ![c] = 0]
  /\ UNCHANGED <<cacheVars, gucVars, batch_size, mutex, waiters, returned, ctxVars,
                 workerVars, execVars, callerWait, reqVars,
                 batchOf>>

\* pthread_cond_timedwait of a caller returns: deadline passed, or spurious
C_WakeTimeout(c) ==
  /\ pc[c] = "waiting"
  /\ c \in waiters
  /\ waitLeft[c] = 0
  /\ waiters' = waiters \ {c}
  /\ pc' = [pc EXCEPT ![c] = "woken"]
  /\ callerWait' = [callerWait EXCEPT ![c] = ETIMEDOUT]
  /\ UNCHANGED <<cacheVars, gucVars, batch_size, mutex, freed, returned, ctxVars,
                 workerVars, execVars, reqVars, histVars>>

C_WakeSpurious(c) ==
  /\ pc[c] = "waiting"
  /\ c \in waiters
  /\ waiters' = waiters \ {c}
  /\ pc' = [pc EXCEPT ![c] = "woken"]
  /\ callerWait' = [callerWait EXCEPT ![c] = 0]
  /\ UNCHANGED <<cacheVars, gucVars, batch_size, mutex, freed, returned, ctxVars,
                 workerVars, execVars, reqVars, histVars>>

(***************************************************************************)
(* batch_processor, lines 173-185: lock, compute the timeout, and park in  *)
(* pthread_cond_timedwait (which releases the mutex).  The wait is entered *)
(* on every turn of the loop, whatever request_count is.                   *)
(***************************************************************************)
W_Wait ==
  /\ workerPc = "start"
  /\ mutex = NoThread
  /\ workerPc' = "waiting"
  /\ workerLeft' = BatchTimeout
  /\ waiters' = waiters \cup {Worker}
  /\ mutex' = NoThread
  /\ UNCHANGED <<cacheVars, gucVars, batch_size, freed, returned, ctxVars, workerWait,
                 execVars, callerVars, reqVars, histVars>>

W_WakeTimeout ==
  /\ workerPc = "waiting"
  /\ Worker \in waiters
  /\ workerLeft = 0
  /\ waiters' = waiters \ {Worker}
  /\ workerPc' = "woken"
  /\ workerWait' = ETIMEDOUT
  /\ UNCHANGED <<cacheVars, gucVars, batch_size, mutex, freed, returned, ctxVars,
                 workerLeft, execVars, callerVars, reqVars, histVars>>

W_WakeSpurious ==
  /\ workerPc = "waiting"
  /\ Worker \in waiters
  /\ waiters' = waiters \ {Worker}
  /\ workerPc' = "woken"
  /\ workerWait' = 0
  /\ UNCHANGED <<cacheVars, gucVars, batch_size, mutex, freed, returned, ctxVars,
                 workerLeft, execVars, callerVars, reqVars, histVars>>

(***************************************************************************)
(* batch_processor, lines 187-204 and 222: back from the wait with the     *)
(* mutex held.  FlushCondition is the test of lines 188-189; Snapshot is   *)
(* the loop of lines 194-202, which copies each list node by value.        *)
(***************************************************************************)
\* faulty variant: any wake-up with a request queued starts a flush
FlushConditionAnyWake == request_count > 0

FlushCondition ==
  request_count > 0 /\ (request_count >= batch_size \/ workerWait = ETIMEDOUT)

\* faulty variant: the copies are laid out from the tail of the list
SnapshotFromTail ==
  [i \in 1..(IF Len(requests) < request_count
             THEN Len(requests) ELSE request_count) |->
     LET j == (IF Len(requests) < request_count
               THEN Len(requests) ELSE request_count) + 1 - i
     IN [id |-> requests[j], completed |-> reqCompleted[requests[j]],
         result |-> reqResult[requests[j]],
         error_msg |-> reqError[requests[j]]]]

Snapshot ==
  [i \in 1..(IF Len(requests) < request_count
             THEN Len(requests) ELSE request_count) |->
     [id |-> requests[i], completed |-> reqCompleted[requests[i]],
      result |-> reqResult[requests[i]],
      error_msg |-> reqError[requests[i]]]]

\* history: flushes started so far (every flush holds a request)
FlushNo ==
  CHOOSE n \in 0..NumCallers :
    /\ \A c \in Callers : batchOf[c] <= n
    /\ n = 0 \/ \E c \in Callers : batchOf[c] = n

\* what lines 191-204 leave in the queue when the flush starts
QueueAtFlushStart == <<requests, request_count>>

W_FlushStart ==
  /\ workerPc = "woken"
  /\ mutex = NoThread
  /\ FlushCondition
  /\ processing' = TRUE
  /\ req_array' = Snapshot
  /\ requests' = QueueAtFlushStart[1]
  /\ request_count' = QueueAtFlushStart[2]
  /\ mutex' = NoThread
  /\ workerPc' = "readcount"
  /\ batchOf' = [c \in Callers |->
                   IF \E i \in 1..Len(Snapshot) : Snapshot[i].id = c
                   THEN FlushNo + 1 ELSE batchOf[c]]
  /\ workerWait' = 0
  /\ workerLeft' = 0
  /\ UNCHANGED <<cacheVars, gucVars, batch_size, waiters, freed, returned, execCount,
                 calls, callerVars, reqVars, waitLeft>>

W_NoFlush ==
  /\ workerPc = "woken"
  /\ mutex = NoThread
  /\ ~FlushCondition
  /\ mutex' = NoThread
  /\ workerPc' = "start"
  /\ workerWait' = 0
  /\ workerLeft' = 0
  /\ UNCHANGED <<cacheVars, gucVars, batch_size, waiters, freed, returned, ctxVars,
                 execVars, callerVars, reqVars, histVars>>

(***************************************************************************)
(* batch_processor, line 207: the count argument is read from              *)
(* ctx->request_count after the mutex was released.                        *)
(***************************************************************************)
W_ReadCount ==
  /\ workerPc = "readcount"
  /\ execCount' = request_count
  /\ workerPc' = "setup"
  /\ UNCHANGED <<cacheVars, gucVars, batch_size, mutex, waiters, freed, returned, ctxVars,
                 workerWait, workerLeft, req_array, calls, callerVars,
                 reqVars, histVars>>

(***************************************************************************)
(* process_batch_requests_enhanced, lines 490-576.                         *)
(*  - SPI_connect fails: elog(ERROR) does not return; raised in the        *)
(*    batch_processor thread it leaves the thread outside its loop.        *)
(*  - count larger than the array: slots past the malloc'ed block are      *)
(*    read and written (undefined); the thread crashes or goes on with     *)
(*    the slots it has.                                                    *)
(*  - each request is looked up in public.ai_model_list by model_name; a   *)
(*    request whose strings were freed by its caller resolves either way.  *)
(*  - the POST body of a resolved request is merged_args, a buffer of the  *)
(*    loop body that libcurl reads after the loop: "own" tells whether     *)
(*    the bytes sent are still those of this request.                      *)
(***************************************************************************)
\* the slots of req_array the loops "for (i = 0; i < count; i++)" visit
ExecSlots ==
  1..(IF execCount < Len(req_array) THEN execCount ELSE Len(req_array))

ResolveSets ==
  {F \in SUBSET ExecSlots :
     \A i \in ExecSlots :
        req_array[i].id \notin freed =>
           (i \in F <=> reqModel[req_array[i].id] \in KnownModels)}

\* lines 565-569: the slot of a request whose model is not found
MarkNotFound(slot) ==
  [slot EXCEPT !.error_msg = ModelNotFound, !.completed = TRUE]

\* lines 520-558 (handle added to the multi handle) or 565-569
SetupSlots(F) ==
  [i \in 1..Len(req_array) |->
     IF i \in F \/ i \notin ExecSlots
     THEN req_array[i] ELSE MarkNotFound(req_array[i])]

\* faulty variant: the setup loop stops at the first request that fails to
\* resolve
DispatchedUntilFailure(F) == {i \in F : \A j \in 1..i : j \in F}

\* the handles of the batch that are added to the multi handle (line 558)
Dispatched(F) == F

\* lines 491-494: where elog(ERROR, "SPI_connect failed") leaves the thread
SpiConnectFailed == "aborted"

W_SetupSpiFail ==
  /\ workerPc = "setup"
  /\ workerPc' = SpiConnectFailed
  /\ UNCHANGED <<cacheVars, gucVars, batch_size, mutex, waiters, freed, returned, ctxVars,
                 workerWait, workerLeft, execVars, callerVars, reqVars,
                 histVars>>

W_SetupOverrun ==
  /\ workerPc = "setup"
  /\ execCount > Len(req_array)
  /\ workerPc' = "crashed"
  /\ UNCHANGED <<cacheVars, gucVars, batch_size, mutex, waiters, freed, returned, ctxVars,
                 workerWait, workerLeft, execVars, callerVars, reqVars,
                 histVars>>

W_Setup ==
  /\ workerPc = "setup"
  /\ \E F \in ResolveSets :
       /\ req_array' = SetupSlots(F)
       /\ \E own \in [Dispatched(F) -> BOOLEAN] :
            /\ \A i \in Dispatched(F) :
                 own[i] => req_array[i].id \notin freed
            /\ calls' = [i \in 1..Len(req_array) |->
                           IF i \in Dispatched(F)
                           THEN [state |-> "running", own |-> own[i]]
                           ELSE [state |-> "none", own |-> FALSE]]
  /\ workerPc' = "poll"
  /\ UNCHANGED <<cacheVars, gucVars, batch_size, mutex, waiters, freed, returned, ctxVars,
                 workerWait, workerLeft, execCount, callerVars, reqVars,
                 histVars>>

(***************************************************************************)
(* Lines 576-599: curl_multi_perform, then the select loop.  A perform     *)
(* finishes any subset of the running transfers, each with a response or   *)
(* with a transport failure.  The loop is left when nothing is running or  *)
(* when select returns -1.                                                 *)
(***************************************************************************)
Running == {i \in 1..Len(calls) : calls[i].state = "running"}

\* line 594: the loop is left on this value of select
LeavesPollLoop(rc, stillRunning) == stillRunning = {} \/ rc = -1

W_Perform ==
  /\ workerPc = "poll"
  /\ Running # {}
  /\ \E S \in (SUBSET Running) \ {{}} :
       \E f \in [S -> {"ok", "failed"}] :
         calls' = [i \in 1..Len(calls) |->
                     IF i \in S THEN [calls[i] EXCEPT !.state = f[i]]
                     ELSE calls[i]]
  /\ UNCHANGED <<cacheVars, gucVars, batch_size, mutex, waiters, freed, returned, ctxVars,
                 workerVars, req_array, execCount, callerVars, reqVars,
                 histVars>>

W_PollExit ==
  /\ workerPc = "poll"
  /\ \E rc \in {0, -1} : LeavesPollLoop(rc, Running)
  /\ workerPc' = "store"
  /\ UNCHANGED <<cacheVars, gucVars, batch_size, mutex, waiters, freed, returned, ctxVars,
                 workerWait, workerLeft, execVars, callerVars, reqVars,
                 histVars>>

(***************************************************************************)
(* Lines 601-613: every slot not yet completed takes responses[i].data     *)
(* and is marked completed.  The slots are those of req_array.             *)
(***************************************************************************)
GarbledData == 3

ResponseData(i) ==
  IF calls[i].state = "ok"
  THEN (IF calls[i].own THEN Resp(req_array[i].id) ELSE GarbledData)
  ELSE EmptyData

StoreSlot(i) ==
  IF i \in ExecSlots /\ ~req_array[i].completed
  THEN [req_array[i] EXCEPT !.result = ResponseData(i), !.completed = TRUE]
  ELSE req_array[i]

W_Store ==
  /\ workerPc = "store"
  /\ req_array' = [i \in 1..Len(req_array) |-> StoreSlot(i)]
  /\ workerPc' = "finish"
  /\ UNCHANGED <<cacheVars, gucVars, batch_size, mutex, waiters, freed, returned, ctxVars,
                 workerWait, workerLeft, execCount, calls, callerVars,
                 reqVars, histVars>>

(***************************************************************************)
(* batch_processor, lines 209-222: relock, clear processing, reset the     *)
(* queue, free req_array, broadcast, unlock.                               *)
(***************************************************************************)
\* faulty variant: line 212 missing, processing stays set
ProcessingLeftSet == TRUE

ProcessingAfterFlush == FALSE

W_Finish ==
  /\ workerPc = "finish"
  /\ mutex = NoThread
  /\ processing' = ProcessingAfterFlush
  /\ request_count' = 0
  /\ requests' = <<>>
  /\ req_array' = <<>>
  /\ calls' = <<>>
  /\ execCount' = 0
  /\ waiters' = {}
  /\ pc' = PcAfterWake(waiters, Worker, "start")
  /\ callerWait' = CallerWaitAfterWake(waiters)
  /\ mutex' = NoThread
  /\ workerPc' = "start"
  /\ UNCHANGED <<cacheVars, gucVars, batch_size, freed, returned, workerWait,
                 workerLeft, reqVars, histVars>>

Next ==
  \/ W_Wait
  \/ W_WakeTimeout
  \/ W_WakeSpurious
  \/ W_FlushStart
  \/ W_NoFlush
  \/ W_ReadCount
  \/ W_SetupSpiFail
  \/ W_SetupOverrun
  \/ W_Setup
  \/ W_Perform
  \/ W_PollExit
  \/ W_Store
  \/ W_Finish
  \/ Tick
  \/ \E c \in Callers, m \in Models : C_Enqueue(c, m)
  \/ \E c \in Callers, m \in Models : C_EnqueueCrash(c, m)
  \/ \E c \in Callers : C_Wait(c)
  \/ \E c \in Callers : C_Timeout(c)
  \/ \E c \in Callers : C_Leave(c)
  \/ \E c \in Callers : C_Cleanup(c)
  \/ \E c \in Callers : C_WakeTimeout(c)
  \/ \E c \in Callers : C_WakeSpurious(c)

Spec == Init /\ [][Next]_vars


(***************************************************************************)
(* The result cache: lookup_cache_result and store_cache_result, each one  *)
(* SPI session.  spi is the outcome of SPI_connect.                        *)
(***************************************************************************)
DbTick ==
  /\ dbNow < MaxDbTime
  /\ dbNow' = dbNow + 1
  /\ lastOp' = NoOp
  /\ UNCHANGED <<batchVars, enable_ai_result_cache, result_cache, cache_stats, stored>>

\* hash_any over the bytes of a string, printed as %08x (lines 377-382):
\* a 32-bit value, so distinct contents may share a hash
HashBuckets == 2
HashAny(x) == x % HashBuckets

\* expiry_time of a row written at time t (line 435)
ExpiryOf(t, ttl) == t + ttl

\* the INSERT ... ON CONFLICT (model_name, args_hash) DO UPDATE of lines
\* 431-443
Upsert(row, v, ttl) ==
  IF row.present
  THEN [row EXCEPT !.result_text = v,
                   !.created_time = dbNow,
                   !.expiry_time = ExpiryOf(dbNow, ttl),
                   !.access_count = row.access_count + 1]
  ELSE [present |-> TRUE, content_hash |-> HashAny(v), result_text |-> v,
        created_time |-> dbNow, expiry_time |-> ExpiryOf(dbNow, ttl),
        access_count |-> 1]

\* SELECT count(*) FROM ai.result_cache (lines 448-449)
CountRows(tbl) == Cardinality({k \in Keys : tbl[k].present})

store_cache_result(k, v, ttl, spi) ==
  /\ result_cache[k].present => result_cache[k].access_count < MaxAccess
  /\ IF spi
     THEN /\ result_cache' = [result_cache EXCEPT ![k] = Upsert(@, v, ttl)]
          /\ cache_stats' =
               [cache_stats EXCEPT !.current_entries =
                  CountRows([result_cache EXCEPT ![k] = Upsert(@, v, ttl)])]
          /\ stored' = [stored EXCEPT ![k] =
                          [present |-> TRUE, payload |-> v,
                           expiresAt |-> ExpiryOf(dbNow, ttl), args |-> NULL]]
     ELSE UNCHANGED <<result_cache, cache_stats, stored>>
  /\ lastOp' = [op |-> "store", key |-> k, spi |-> spi, at |-> dbNow]
  /\ UNCHANGED <<batchVars, enable_ai_result_cache, dbNow>>

\* the WHERE clause of lines 392-395
Unexpired(row) == row.present /\ row.expiry_time > dbNow

\* *cached_result as the caller sees it.  pstrdup (line 408) runs between
\* SPI_connect and SPI_finish, so the copy lives in the SPI procedure
\* context, which SPI_finish (line 420) deletes: the pointer handed back
\* dangles, and reads of it yield the stored text or whatever replaced it.
GarbagePayload == 20
ReadCachedResult(text, dangling) == IF dangling THEN GarbagePayload ELSE text
CachedResultAfterFinish(text) ==
  {ReadCachedResult(text, d) : d \in BOOLEAN}

lookup_cache_result(k, spi) ==
  /\ IF spi /\ Unexpired(result_cache[k])
     THEN \E p \in CachedResultAfterFinish(result_cache[k].result_text) :
            lastOp' = [op |-> "lookup", key |-> k, spi |-> spi,
                       at |-> dbNow, found |-> TRUE, payload |-> p,
                       cache_time |-> result_cache[k].created_time]
     ELSE lastOp' = [op |-> "lookup", key |-> k, spi |-> spi, at |-> dbNow,
                     found |-> FALSE, payload |-> NULL, cache_time |-> 0]
  /\ UNCHANGED <<batchVars, enable_ai_result_cache, dbNow, result_cache, cache_stats, stored>>

CacheNext ==
  \/ DbTick
  \/ \E k \in Keys, v \in Payloads, ttl \in 1..MaxTtl, spi \in BOOLEAN :
       store_cache_result(k, v, ttl, spi)
  \/ \E k \in Keys, spi \in BOOLEAN : lookup_cache_result(k, spi)

\* the cache is exercised with the batch engine idle
CacheSpecInit ==
  BatchInit /\ GucInit /\ CacheInit /\ batch_size = MaxBatchSize

CacheSpec == CacheSpecInit /\ [][CacheNext]_vars

(***************************************************************************)
(* The SQL-callable functions of ai_cache_enhancement.c.  One call is one  *)
(* statement, so now() is the same in every SPI session of the call, and   *)
(* an ERROR raised inside it undoes what the call wrote.                   *)
(***************************************************************************)
\* the argument documents: n stands for the jsonb {"input": n}
ArgsSet == 1..NumArgs

\* psprintf("%08x", hash) of line 374
HashText(h) == IF h = 0 THEN "h1" ELSE "h2"

compute_args_hash(a) == HashText(HashAny(a))

\* the row a SELECT by (model_name, args_hash) sees
RowOf(tbl, k) == IF k \in DOMAIN tbl THEN tbl[k] ELSE NoRow

\* the outcomes of SPI_connect in the three sessions of one call
SpiAll(b) == [lookup |-> b, store |-> b, stats |-> b]
SpiOutcomes ==
  {SpiAll(TRUE), SpiAll(FALSE), [SpiAll(TRUE) EXCEPT !.lookup = FALSE],
   [SpiAll(TRUE) EXCEPT !.store = FALSE],
   [SpiAll(TRUE) EXCEPT !.stats = FALSE]}

\* ai.invoke_model(model, args), found by name at lines 111-113 and called
\* at 116-118: it returns the payload of the endpoint or fails; a failure
\* of a called function is an ERROR raised through the caller.
UpstreamOutcomes ==
  {[ok |-> TRUE, payload |-> p] : p \in Payloads} \cup
  {[ok |-> FALSE, payload |-> NULL]}

\* faulty variant: ttl_seconds is not tested
UseCacheAnyTtl(ttl) == enable_ai_result_cache

\* line 85 (and 123, 183)
UseCache(ttl) == enable_ai_result_cache /\ ttl > 0

\* faulty variant: the result of SPI_connect is not tested before the
\* SELECT is trusted
CacheHitIgnoringConnect(tbl, k, ttl, connected) ==
  UseCache(ttl) /\ Unexpired(RowOf(tbl, k))

\* lines 85-88 with lookup_cache_result: found only inside a session
CacheHit(tbl, k, ttl, connected) ==
  UseCache(ttl) /\ connected /\ Unexpired(RowOf(tbl, k))

\* the sessions one call may find unreachable: with the cache off neither
\* the lookup session nor the store session is opened
SessionOutcomes(ttl) ==
  IF UseCache(ttl) THEN SpiOutcomes
  ELSE {s \in SpiOutcomes : s.lookup /\ s.store}

\* what the environment does during one call: on a hit how the dangling
\* text reads (no upstream is asked), on a miss what the upstream answers
InvokeChoices(m, a, ttl, spi) ==
  IF CacheHit(result_cache, <<m, compute_args_hash(a)>>, ttl, spi.lookup)
  THEN {[up |-> [ok |-> FALSE, payload |-> NULL], dangling |-> d] :
          d \in BOOLEAN}
  ELSE {[up |-> u, dangling |-> FALSE] : u \in UpstreamOutcomes}

\* lines 95-99 and 131-135
StatsAfterHit(stats) ==
  [stats EXCEPT !.cache_hits = @ + 1, !.total_requests = @ + 1]

StatsAfterMiss(stats) ==
  [stats EXCEPT !.cache_misses = @ + 1, !.total_requests = @ + 1]

\* lines 123-128: the miss path stores what the upstream returned
StoresResult(tbl, k, ttl, spi, up) ==
  ~CacheHit(tbl, k, ttl, spi.lookup) /\ up.ok /\ UseCache(ttl) /\ spi.store

\* some session the call opens finds the store unreachable (SPI_connect
\* of lines 390, 430, 95 or 131 does not return SPI_OK_CONNECT)
SkipsSession(tbl, k, ttl, spi, up) ==
  \/ UseCache(ttl) /\ ~spi.lookup
  \/ ~CacheHit(tbl, k, ttl, spi.lookup) /\ up.ok /\ UseCache(ttl) /\ ~spi.store
  \/ (CacheHit(tbl, k, ttl, spi.lookup) \/ up.ok) /\ ~spi.stats

\* ai_invoke_model_cached over given tables: the tables it leaves and what
\* it returns.  dangling: how the bytes behind cached_result read at line
\* 149.
InvokeCached(tbl, stats, hist, m, a, ttl, spi, up, dangling) ==
  LET k == <<m, compute_args_hash(a)>>
      hit == CacheHit(tbl, k, ttl, spi.lookup)
      sto == StoresResult(tbl, k, ttl, spi, up)
      tblS == IF sto THEN [tbl EXCEPT ![k] = Upsert(@, up.payload, ttl)]
              ELSE tbl
      statsS == IF sto THEN [stats EXCEPT !.current_entries = CountRows(tblS)]
                ELSE stats
      histS == IF sto
               THEN [hist EXCEPT ![k] =
                       [present |-> TRUE, payload |-> up.payload,
                        expiresAt |-> ExpiryOf(dbNow, ttl), args |-> a]]
               ELSE hist
  IN IF hit
     THEN [tbl |-> tbl,
           stats |-> IF spi.stats THEN StatsAfterHit(stats) ELSE stats,
           stored |-> hist, raised |-> FALSE, cache_hit |-> TRUE,
           upstream |-> FALSE,
           payload |-> ReadCachedResult(RowOf(tbl, k).result_text, dangling)]
     ELSE IF ~up.ok
     THEN [tbl |-> tbl, stats |-> stats, stored |-> hist, raised |-> TRUE,
           cache_hit |-> FALSE, upstream |-> TRUE, payload |-> NULL]
     ELSE [tbl |-> tblS,
           stats |-> IF spi.stats THEN StatsAfterMiss(statsS) ELSE statsS,
           stored |-> histS, raised |-> FALSE, cache_hit |-> FALSE,
           upstream |-> TRUE, payload |-> up.payload]

ai_invoke_model_cached(m, a, ttl, spi, up, dangling) ==
  LET k == <<m, compute_args_hash(a)>>
  IN \E r \in {InvokeCached(result_cache, cache_stats, stored, m, a, ttl,
                            spi, up, dangling)} :
     /\ (StoresResult(result_cache, k, ttl, spi, up) /\ result_cache[k].present)
          => result_cache[k].access_count < MaxAccess
     /\ result_cache' = r.tbl
     /\ cache_stats' = r.stats
     /\ stored' = r.stored
     /\ cache_stats'.total_requests <= MaxRequests
     /\ lastOp' = [op |-> "invoke", payload |-> r.payload,
                   raised |-> r.raised, upstream |-> r.upstream,
                   degraded |-> SkipsSession(result_cache, k, ttl, spi, up)]
     /\ UNCHANGED <<batchVars, enable_ai_result_cache, dbNow>>

(***************************************************************************)
(* ai_batch_invoke_cached, lines 153-264.  The loop of lines 174-238 runs  *)
(* the items in order; each item that is not null is looked up under the   *)
(* key batch_<input>_<index> and, when that finds nothing, handed to       *)
(* ai_invoke_model_cached with the arguments {"input": <input>}.           *)
(***************************************************************************)
NullInput == 0
Inputs == 1..NumInputs
InputArrays ==
  UNION {[1..n -> Inputs \cup {NullInput}] : n \in 0..MaxInputs}

\* psprintf("batch_%s_%d", input_text, i) of line 185, i counted from 0
BatchHash(input, i) == "batch_" \o ToString(input) \o "_" \o ToString(i)

\* jsonb_concat of the user arguments (none: '{}') and {"input": input}
MergedArgs(input) == input

\* what the environment does during one call: the upstream outcome per
\* item that is not null, whether the store is reachable, how a dangling
\* text reads (nothing is read from a store that is not reachable)
BatchChoices(inputs) ==
  {ch \in [up : [{i \in 1..Len(inputs) : inputs[i] # NullInput} ->
                   UpstreamOutcomes],
           spi : BOOLEAN, dangling : BOOLEAN] : ch.dangling => ch.spi}

\* line 175: a null element is passed over, nothing is appended for it
SkipsItem(x) == x = NullInput

RECURSIVE BatchItems(_, _, _, _, _, _)
BatchItems(acc, i, m, inputs, ttl, ch) ==
  IF i > Len(inputs) \/ acc.raised THEN acc
  ELSE IF SkipsItem(inputs[i]) THEN BatchItems(acc, i + 1, m, inputs, ttl, ch)
  ELSE
    LET bk == <<m, BatchHash(inputs[i], i - 1)>>
        found == CacheHit(acc.tbl, bk, ttl, ch.spi)
        r == InvokeCached(acc.tbl, acc.stats, acc.stored, m,
                          MergedArgs(inputs[i]), ttl, SpiAll(ch.spi),
                          ch.up[i], ch.dangling)
    IN IF found
       THEN BatchItems(
              [acc EXCEPT
                 !.out = Append(@, ReadCachedResult(
                                     RowOf(acc.tbl, bk).result_text,
                                     ch.dangling)),
                 !.hits = @ + 1],
              i + 1, m, inputs, ttl, ch)
       ELSE BatchItems(
              [tbl |-> r.tbl, stats |-> r.stats, stored |-> r.stored,
               out |-> IF r.raised THEN acc.out
                       ELSE Append(acc.out, r.payload),
               raised |-> r.raised, hits |-> acc.hits,
               misses |-> IF r.raised THEN acc.misses ELSE acc.misses + 1],
              i + 1, m, inputs, ttl, ch)

\* lines 241-253
StatsAfterBatch(stats, hits, misses, input_count) ==
  [stats EXCEPT !.cache_hits = @ + hits,
                !.cache_misses = @ + misses,
                !.total_requests = @ + input_count,
                !.batch_requests = @ + 1]

\* a call that raises leaves nothing behind (the statement is rolled
\* back); one that returns hands back the array built, or NULL when
\* nothing was appended (lines 260-263)
ai_batch_invoke_cached(m, inputs, ttl, ch) ==
  LET acc0 == [tbl |-> result_cache, stats |-> cache_stats,
               stored |-> stored, out |-> <<>>, raised |-> FALSE,
               hits |-> 0, misses |-> 0]
  IN \E r \in {BatchItems(acc0, 1, m, inputs, ttl, ch)} :
     /\ \A k \in Keys :
          r.tbl[k].present => r.tbl[k].access_count <= MaxAccess
     /\ IF r.raised
        THEN /\ UNCHANGED <<result_cache, cache_stats, stored>>
             /\ lastOp' = [op |-> "batch", out |-> <<>>, isnull |-> FALSE,
                           raised |-> TRUE]
        ELSE /\ result_cache' = r.tbl
             /\ cache_stats' =
                  IF ch.spi
                  THEN StatsAfterBatch(r.stats, r.hits, r.misses, Len(inputs))
                  ELSE r.stats
             /\ stored' = r.stored
             /\ lastOp' = [op |-> "batch", out |-> r.out,
                           isnull |-> r.out = <<>>, raised |-> FALSE]
     /\ cache_stats'.total_requests <= MaxBatchTotal
     /\ cache_stats'.batch_requests <= MaxBatchCalls
     /\ UNCHANGED <<batchVars, enable_ai_result_cache, dbNow>>

(***************************************************************************)
(* ai_cache_clear, lines 325-365.                                          *)
(***************************************************************************)
\* faulty variant: a row is deleted from the instant it expires
ExpiredAtOrBefore(row) == row.present /\ row.expiry_time <= dbNow

\* WHERE expiry_time < now() (lines 338-339)
ExpiredForClear(row) == row.present /\ row.expiry_time < dbNow

\* the rows the DELETE of lines 335-342 removes
DeletedBy(clear_all) ==
  {k \in Keys : result_cache[k].present /\
                (clear_all \/ ExpiredForClear(result_cache[k]))}

\* lines 349-351
StatsAfterClearAll(stats) ==
  [stats EXCEPT !.cache_hits = 0, !.cache_misses = 0,
                !.total_requests = 0, !.current_entries = 0]

ai_cache_clear(clear_all, spi) ==
  LET gone == DeletedBy(clear_all)
      left == [k \in Keys |-> IF k \in gone THEN NoRow ELSE result_cache[k]]
  IN /\ IF spi
        THEN /\ result_cache' = left
             /\ cache_stats' =
                  IF clear_all THEN StatsAfterClearAll(cache_stats)
                  ELSE [cache_stats EXCEPT !.current_entries = CountRows(left)]
             /\ stored' = [k \in Keys |->
                             IF k \in gone THEN NoStore ELSE stored[k]]
             /\ lastOp' = [op |-> "clear", deleted |-> Cardinality(gone)]
        ELSE /\ UNCHANGED <<result_cache, cache_stats, stored>>
             /\ lastOp' = [op |-> "clear", deleted |-> 0]
     /\ UNCHANGED <<batchVars, enable_ai_result_cache, dbNow>>

\* the cache driven by single cached submits
SubmitNext ==
  \/ DbTick
  \/ \E m \in CacheModels, a \in ArgsSet, ttl \in 0..MaxTtl :
       \E spi \in SessionOutcomes(ttl) :
         \E env \in InvokeChoices(m, a, ttl, spi) :
            ai_invoke_model_cached(m, a, ttl, spi, env.up, env.dangling)
  \/ \E clear_all \in BOOLEAN, spi \in BOOLEAN : ai_cache_clear(clear_all, spi)

SubmitSpec == CacheSpecInit /\ [][SubmitNext]_vars

\* the cache driven by batch submits
BatchSubmitNext ==
  \/ DbTick
  \/ \E m \in CacheModels, inputs \in InputArrays, ttl \in 0..MaxTtl :
       \E ch \in BatchChoices(inputs) :
          ai_batch_invoke_cached(m, inputs, ttl, ch)
  \/ \E clear_all \in BOOLEAN, spi \in BOOLEAN : ai_cache_clear(clear_all, spi)

BatchSubmitSpec == CacheSpecInit /\ [][BatchSubmitNext]_vars

(***************************************************************************)
(* Properties of the batch engine.                                         *)
(***************************************************************************)
InQueue(c) == \E i \in 1..Len(requests) : requests[i] = c
InBatch(c) == \E i \in 1..Len(req_array) : req_array[i].id = c
Submitted(c) == pc[c] \notin {"idle", "crashed"}
InWaitLoop(c) == pc[c] \in {"enqueued", "waiting", "woken"}
Executing == workerPc \in {"readcount", "setup", "poll", "store", "finish"}
Abs(n) == IF n < 0 THEN -n ELSE n

\* C1: when a flush completes (lines 209-216), every request of the flushed
\* batch has, in the object its caller enqueued, completed set and the
\* result / error_msg the executor computed for its batch index.
C1_OutcomeWrittenBack ==
  [][(workerPc = "finish" /\ workerPc' = "start") =>
       \A i \in 1..Len(req_array) :
          /\ reqCompleted'[req_array[i].id]
          /\ reqResult'[req_array[i].id] = req_array[i].result
          /\ reqError'[req_array[i].id] = req_array[i].error_msg]_vars

\* C2: a caller leaves the wait loop of ai_batch_invoke only with its own
\* completed flag set or through the timeout branch.
C2_LeaveOnlyOnOwnFlagOrTimeout ==
  [][\A c \in Callers :
       (InWaitLoop(c) /\ ~InWaitLoop(c)') =>
          (reqCompleted[c] \/ pc'[c] = "timeout")]_vars

\* C3: no enqueued request is discarded without being dispatched: a request
\* that was appended to the queue is still in the queue or has been copied
\* into the batch of some flush.
C3_NoRequestDiscarded ==
  \A c \in Callers : Submitted(c) => (InQueue(c) \/ batchOf[c] # 0)

\* C4: once the queue length has reached batch_size, the batch_processor
\* is not left parked on the condition with only its timer to wake it.
C4_ThresholdFlushNeedsNoTimer ==
  ~(/\ workerPc = "waiting"
    /\ Worker \in waiters
    /\ workerLeft > 0
    /\ request_count >= batch_size)

\* C5: two requests enqueued within one batch timeout of each other, with
\* the threshold above their number, are never split: when one is in the
\* batch of a flush, the other is in the batch of the same flush.
C5_WindowNeverSplit ==
  \A a, b \in Callers :
     (/\ a # b
      /\ batch_size > NumCallers
      /\ InWaitLoop(a) /\ InWaitLoop(b)
      /\ waitLeft[a] > 0 /\ waitLeft[b] > 0
      /\ Abs(waitLeft[a] - waitLeft[b]) <= BatchTimeout
      /\ batchOf[a] # 0)
     => batchOf[b] = batchOf[a]

C7_WorkerNeverStops == workerPc \notin {"aborted", "crashed"}

\* C8: a flush begins only when no flush is in flight: processing was
\* cleared and the previous batch released; and the executor runs only
\* inside the one flush that set processing.
C8_OneFlushInFlight ==
  [][/\ (batchOf' # batchOf) =>
          (~processing /\ ~Executing /\ req_array = <<>> /\ processing')
     /\ Executing' => processing']_vars

C8_Witness ==
  /\ FlushNo = 2
  /\ processing
  /\ workerPc = "poll"

\* C9: the timeout branch of the wait (lines 412-416) returns the timeout
\* error with the mutex released and leaves the queue, the count, the
\* in-flight batch and the request itself as they were.
C9_TimeoutLeavesQueue ==
  [][\A c \in Callers :
       (pc[c] = "woken" /\ callerWait[c] = ETIMEDOUT /\ pc'[c] # pc[c]) =>
          /\ pc'[c] = "timeout"
          /\ returned'[c] = ETIMEDOUT
          /\ mutex' = NoThread
          /\ requests' = requests
          /\ request_count' = request_count
          /\ req_array' = req_array
          /\ processing' = processing
          /\ freed' = freed]_vars

C9_Witness ==
  \E c \in Callers :
     /\ pc[c] = "timeout"
     /\ returned[c] = ETIMEDOUT
     /\ InQueue(c)
     /\ InBatch(c)
     /\ request_count = Len(requests)

(***************************************************************************)
(* Properties of the result cache.                                         *)
(***************************************************************************)
\* C10: a lookup of a key that was stored (with the store reachable)
\* returns, while now < expiry, a hit with the payload last stored, and
\* once the TTL has elapsed a miss although the row is still in the table.
C10_StoreThenLookup ==
  (/\ lastOp.op = "lookup"
   /\ lastOp.spi
   /\ stored[lastOp.key].present)
  => IF lastOp.at < stored[lastOp.key].expiresAt
     THEN lastOp.found /\ lastOp.payload = stored[lastOp.key].payload
     ELSE ~lastOp.found /\ result_cache[lastOp.key].present

\* C11: a store on a key leaves one row for the key, holding the payload
\* stored, created now, expiring now + ttl, with access_count one more than
\* before (1 for a new key), and leaves the other rows alone; and after two
\* stores on a key a lookup before the expiry returns the payload of the
\* second store.
C11_UpsertThenLookup ==
  [][/\ \A k \in Keys, v \in Payloads, ttl \in 1..MaxTtl :
          store_cache_result(k, v, ttl, TRUE) =>
            /\ result_cache'[k].present
            /\ result_cache'[k].result_text = v
            /\ result_cache'[k].created_time = dbNow
            /\ result_cache'[k].expiry_time = dbNow + ttl
            /\ result_cache'[k].access_count =
                 (IF result_cache[k].present
                  THEN result_cache[k].access_count + 1 ELSE 1)
            /\ \A j \in Keys \ {k} : result_cache'[j] = result_cache[j]
     /\ \A k \in Keys :
          (/\ lookup_cache_result(k, TRUE)
           /\ stored[k].present
           /\ result_cache[k].access_count >= 2
           /\ dbNow < stored[k].expiresAt) =>
            /\ lastOp'.found
            /\ lastOp'.payload = stored[k].payload
            /\ CountRows(result_cache') = CountRows(result_cache)]_vars

(***************************************************************************)
(* Properties of the SQL-callable cache functions.                         *)
(***************************************************************************)
ExpiredRows == {k \in Keys : result_cache[k].present /\
                             result_cache[k].expiry_time < dbNow}

\* C12: ai_cache_clear(true), with the store reachable, leaves no row,
\* leaves every counter of ai.cache_stats at zero and returns the number of
\* rows there were.
C12_ClearAllZeroesCounters ==
  [][ai_cache_clear(TRUE, TRUE) =>
       /\ \A k \in Keys : ~result_cache'[k].present
       /\ cache_stats' = ZeroStats
       /\ lastOp'.deleted = CountRows(result_cache)]_vars

\* C13: ai_cache_clear(false), with the store reachable, deletes exactly
\* the rows with expiry_time < now, keeps every other row as it was, keeps
\* total_requests, cache_hits, cache_misses and batch_requests, sets
\* current_entries to the number of rows left and returns the number of
\* rows deleted.
C13_ClearExpiredOnly ==
  [][ai_cache_clear(FALSE, TRUE) =>
       /\ \A k \in Keys :
            result_cache'[k] =
              (IF k \in ExpiredRows THEN NoRow ELSE result_cache[k])
       /\ cache_stats'.total_requests = cache_stats.total_requests
       /\ cache_stats'.cache_hits = cache_stats.cache_hits
       /\ cache_stats'.cache_misses = cache_stats.cache_misses
       /\ cache_stats'.batch_requests = cache_stats.batch_requests
       /\ cache_stats'.current_entries = CountRows(result_cache')
       /\ lastOp'.deleted = Cardinality(ExpiredRows)]_vars

\* one expired row was deleted, an unexpired row is left, and the counters
\* of the batch submits made before are still there
C13_Witness ==
  /\ lastOp.op = "clear"
  /\ lastOp.deleted = 1
  /\ \E k \in Keys : Unexpired(result_cache[k])
  /\ cache_stats.current_entries = 1
  /\ cache_stats.cache_misses > 0
  /\ cache_stats.batch_requests > 0

KeyOf(m, a) == <<m, compute_args_hash(a)>>
OkOutcomes == {u \in UpstreamOutcomes : u.ok}

\* C14: a cached submit that finds an unexpired row for its key (cache on,
\* store reachable) returns the text of that row, calls no upstream, adds
\* one to cache_hits and to total_requests and leaves cache_misses and the
\* rows as they were.
C14_HitReturnsCachedPayload ==
  [][\A m \in CacheModels, a \in ArgsSet, ttl \in 1..MaxTtl :
     \A env \in InvokeChoices(m, a, ttl, SpiAll(TRUE)) :
       (/\ ai_invoke_model_cached(m, a, ttl, SpiAll(TRUE), env.up,
                                  env.dangling)
        /\ Unexpired(result_cache[KeyOf(m, a)])) =>
         /\ lastOp'.payload = result_cache[KeyOf(m, a)].result_text
         /\ ~lastOp'.raised
         /\ ~lastOp'.upstream
         /\ cache_stats'.cache_hits = cache_stats.cache_hits + 1
         /\ cache_stats'.total_requests = cache_stats.total_requests + 1
         /\ cache_stats'.cache_misses = cache_stats.cache_misses
         /\ result_cache' = result_cache]_vars

\* C15: a cached submit that misses and whose upstream call succeeds
\* (cache on, store reachable) leaves a row for its key with the payload
\* returned and expiry_time = now + ttl; and a submit with the model and
\* arguments of the call that stored the row, made before that expiry,
\* returns the stored payload and calls no upstream.
C15_MissStoresThenHit ==
  [][\A m \in CacheModels, a \in ArgsSet, ttl \in 1..MaxTtl :
     \A env \in InvokeChoices(m, a, ttl, SpiAll(TRUE)) :
       ai_invoke_model_cached(m, a, ttl, SpiAll(TRUE), env.up,
                              env.dangling) =>
         /\ (~Unexpired(result_cache[KeyOf(m, a)]) /\ env.up.ok) =>
               /\ lastOp'.payload = env.up.payload
               /\ result_cache'[KeyOf(m, a)].present
               /\ result_cache'[KeyOf(m, a)].result_text = env.up.payload
               /\ result_cache'[KeyOf(m, a)].expiry_time = dbNow + ttl
         /\ (/\ stored[KeyOf(m, a)].present
             /\ stored[KeyOf(m, a)].args = a
             /\ dbNow < stored[KeyOf(m, a)].expiresAt) =>
               /\ lastOp'.payload = stored[KeyOf(m, a)].payload
               /\ ~lastOp'.upstream]_vars

NonNull(inputs) == {i \in DOMAIN inputs : inputs[i] # NullInput}

\* C17: a batch submit that returns hands back an array as long as its
\* input array, and position i holds the outcome of input i: with the
\* cache off (ttl 0) that is the payload the upstream gave for item i.
C17_BatchResultIsPositional ==
  [][\A m \in CacheModels, inputs \in InputArrays, ttl \in 0..MaxTtl :
     \A ch \in BatchChoices(inputs) :
       (/\ lastOp'.op = "batch"
        /\ ~lastOp'.raised
        /\ ai_batch_invoke_cached(m, inputs, ttl, ch)) =>
         /\ ~lastOp'.isnull
         /\ Len(lastOp'.out) = Len(inputs)
         /\ ttl = 0 =>
              \A i \in NonNull(inputs) : lastOp'.out[i] = ch.up[i].payload]_vars

\* C18: a batch submit one of whose items fails upstream does not raise:
\* it returns, and its array has an entry for every item that is not null,
\* the failed one included.
C18_ItemFailureStaysInPlace ==
  [][\A m \in CacheModels, inputs \in InputArrays, ttl \in 0..MaxTtl :
     \A ch \in BatchChoices(inputs) :
       (/\ lastOp'.op = "batch"
        /\ \E i \in NonNull(inputs) : ~ch.up[i].ok
        /\ ai_batch_invoke_cached(m, inputs, ttl, ch)) =>
         /\ ~lastOp'.raised
         /\ Len(lastOp'.out) = Cardinality(NonNull(inputs))]_vars

\* C19: the results of a batch are recorded only when none of its calls is
\* still outstanding: the polling loop is not left, and the store loop not
\* entered, while a transfer is running.
C19_NoStoreWhileOutstanding == workerPc = "store" => Running = {}

\* C20: the worker starts a flush only with a request queued and either
\* the queue at the batch size or its timed wait expired; a wake-up that
\* is neither starts none.
C20_FlushOnlyAtThresholdOrTimeout ==
  [][/\ (workerPc = "woken" /\ workerPc' = "readcount") =>
          /\ request_count > 0
          /\ Len(requests) > 0
          /\ \/ request_count >= batch_size
             \/ workerWait = ETIMEDOUT
     /\ (/\ workerPc = "woken"
         /\ workerPc' # workerPc
         /\ workerWait # ETIMEDOUT
         /\ request_count < batch_size) =>
          /\ workerPc' = "start"
          /\ processing' = processing
          /\ requests' = requests]_vars

\* a flush started by the expired wait, with fewer requests than the
\* batch size
C20_Witness ==
  /\ workerPc = "readcount"
  /\ processing
  /\ Len(req_array) > 0
  /\ Len(req_array) < batch_size

\* the worker is between the snapshot and the end of the store loop
InFlush == {"readcount", "setup", "poll", "store"}

\* C21: a request enters the list at its tail; a snapshot holds the
\* requests in the order of the list (slot i is the i-th node, so of two
\* requests of a batch the one enqueued first has the smaller index); and
\* from the snapshot to the end of the store loop no slot changes its
\* request.
C21_BatchKeepsQueueOrder ==
  [][/\ (requests' # requests /\ requests' # <<>>) =>
          \E c \in Callers : /\ ~InQueue(c)
                             /\ requests' = Append(requests, c)
     /\ workerPc' \in InFlush =>
          /\ Len(req_array') <= Len(requests')
          /\ \A i \in DOMAIN req_array' : req_array'[i].id = requests'[i]
     /\ (workerPc \in InFlush /\ workerPc' \in InFlush \cup {"finish"}) =>
          /\ Len(req_array') = Len(req_array)
          /\ \A i \in DOMAIN req_array : req_array'[i].id = req_array[i].id]_vars

\* the store loop has run over a batch of two requests of which the one
\* with the larger id was enqueued first, each call paired with its slot
C21_Witness ==
  /\ workerPc = "finish"
  /\ Len(req_array) = 2
  /\ req_array[1].id > req_array[2].id
  /\ \A i \in DOMAIN req_array :
       calls[i].state = "ok" /\ calls[i].own =>
         req_array[i].result = Resp(req_array[i].id)
  /\ \E i \in DOMAIN req_array : calls[i].state = "ok" /\ calls[i].own

(***************************************************************************)
(* Scheduling.  Time passes; the batch_processor thread and every backend  *)
(* inside ai_batch_invoke keep running (the steps that are faults or       *)
(* spurious wake-ups are never forced).  The deadline of a caller is       *)
(* absolute: a wait entered after it has passed returns ETIMEDOUT, however *)
(* often the caller was woken before, hence the strong condition.          *)
(***************************************************************************)
WorkerRuns ==
  \/ W_Wait
  \/ W_WakeTimeout
  \/ W_FlushStart
  \/ W_NoFlush
  \/ W_ReadCount
  \/ W_Setup
  \/ W_Perform
  \/ W_PollExit
  \/ W_Store
  \/ W_Finish

CallerRuns(c) ==
  \/ C_Wait(c)
  \/ C_Timeout(c)
  \/ C_Leave(c)
  \/ C_Cleanup(c)

Fairness ==
  /\ WF_vars(Tick)
  /\ WF_vars(WorkerRuns)
  /\ \A c \in Callers : WF_vars(CallerRuns(c)) /\ SF_vars(C_WakeTimeout(c))

FairSpec == Spec /\ Fairness

\* ai_batch_invoke has returned to caller c
Returned(c) == pc[c] \in {"timeout", "cleanup", "done"}

\* every caller that parks in the wait of ai_batch_invoke returns
CallerReturns == \A c \in Callers : (pc[c] = "waiting") ~> Returned(c)

\* C22: every caller that enters the blocking wait eventually returns,
\* with the timeout error or with the outcome of its own request.
C22_WaitEndsInOutcomeOrTimeout ==
  \A c \in Callers :
    (pc[c] = "waiting") ~>
       \/ pc[c] = "timeout"
       \/ pc[c] \in {"cleanup", "done"} /\ returned[c] # NULL

\* C23: a cached submit with the cache disabled or ttl <= 0 goes upstream
\* whatever the table holds, and leaves every row and current_entries as
\* they were (nothing is looked up, nothing is stored).
C23_CacheOffTouchesNoEntry ==
  [][\A m \in CacheModels, a \in ArgsSet, ttl \in 0..MaxTtl :
     \A spi \in SessionOutcomes(ttl), up \in UpstreamOutcomes :
       (/\ lastOp'.op = "invoke"
        /\ ~enable_ai_result_cache \/ ttl <= 0
        /\ lastOp'.raised = ~up.ok
        /\ ai_invoke_model_cached(m, a, ttl, spi, up, FALSE)) =>
         /\ lastOp'.upstream
         /\ up.ok => lastOp'.payload = up.payload
         /\ result_cache' = result_cache
         /\ stored' = stored
         /\ cache_stats'.current_entries = cache_stats.current_entries]_vars

\* with the cache enabled and every session open, a submit went upstream
\* although both rows were unexpired, and returned a payload no row holds
C23_Witness ==
  /\ enable_ai_result_cache
  /\ lastOp.op = "invoke"
  /\ ~lastOp.degraded
  /\ lastOp.upstream
  /\ ~lastOp.raised
  /\ \A k \in Keys : /\ Unexpired(result_cache[k])
                     /\ result_cache[k].result_text # lastOp.payload

(***************************************************************************)
(* ai_configure_batch, ai.c lines 444-479.  elog(ERROR) does not return:   *)
(* a rejected call assigns nothing.                                        *)
(***************************************************************************)
ParamNames ==
  {"batch_size", "batch_timeout_ms", "max_concurrent_requests", "batch"}

\* values passed as param_value: inside, on and beyond the limits
ParamValues == {-1, 0, 1, 99, 100, 101, 200, 201, 5000, 5001}

\* faulty variant: only the lower limit is tested
AcceptsAboveLower(name, v) ==
  \/ name = "batch_size" /\ v >= 1
  \/ name = "batch_timeout_ms" /\ v >= 100
  \/ name = "max_concurrent_requests" /\ v >= 1

\* lines 452-453, 459-460, 466-467
Accepts(name, v) ==
  \/ name = "batch_size" /\ v >= 1 /\ v <= 100
  \/ name = "batch_timeout_ms" /\ v >= 100 /\ v <= 5000
  \/ name = "max_concurrent_requests" /\ v >= 1 /\ v <= 200

ai_configure_batch(name, v) ==
  /\ IF Accepts(name, v)
     THEN /\ batch_size' = IF name = "batch_size" THEN v ELSE batch_size
          /\ batch_timeout_ms' =
               IF name = "batch_timeout_ms" THEN v ELSE batch_timeout_ms
          /\ max_concurrent_requests' =
               IF name = "max_concurrent_requests" THEN v
               ELSE max_concurrent_requests
          /\ lastOp' = [op |-> "configure", raised |-> FALSE]
     ELSE /\ UNCHANGED <<batch_size, gucVars>>
          /\ lastOp' = [op |-> "configure", raised |-> TRUE]
  /\ UNCHANGED <<requests, request_count, processing, mutex, waiters,
                 workerVars, execVars, callerVars, reqVars, freed, returned,
                 histVars, dbNow, result_cache, cache_stats, stored,
                 enable_ai_result_cache>>

ConfigNext ==
  \E name \in ParamNames, v \in ParamValues : ai_configure_batch(name, v)

ConfigSpec == Init /\ [][ConfigNext]_vars

\* C24: whatever ai_configure_batch is called with, the three settings stay
\* inside their ranges; a value outside the range of the named setting, or
\* a name that is none of the three, ends in an error and changes none of
\* them; a value inside the range sets the named one and no other.
C24_ConfigureKeepsRanges ==
  [][\A name \in ParamNames, v \in ParamValues :
       ai_configure_batch(name, v) =>
         /\ batch_size' \in 1..100
         /\ batch_timeout_ms' \in 100..5000
         /\ max_concurrent_requests' \in 1..200
         /\ (\/ name = "batch_size" /\ v \notin 1..100
             \/ name = "batch_timeout_ms" /\ v \notin 100..5000
             \/ name = "max_concurrent_requests" /\ v \notin 1..200
             \/ name = "batch") =>
              /\ lastOp'.raised
              /\ UNCHANGED <<batch_size, batch_timeout_ms,
                             max_concurrent_requests>>
         /\ (name = "batch_size" /\ v \in 1..100) =>
              /\ ~lastOp'.raised
              /\ batch_size' = v
              /\ UNCHANGED <<batch_timeout_ms, max_concurrent_requests>>
         /\ (name = "batch_timeout_ms" /\ v \in 100..5000) =>
              /\ ~lastOp'.raised
              /\ batch_timeout_ms' = v
              /\ UNCHANGED <<batch_size, max_concurrent_requests>>
         /\ (name = "max_concurrent_requests" /\ v \in 1..200) =>
              /\ ~lastOp'.raised
              /\ max_concurrent_requests' = v
              /\ UNCHANGED <<batch_size, batch_timeout_ms>>]_vars

\* all three settings sit on their upper limits and the last call, which
\* asked for more, was rejected
C24_Witness ==
  /\ lastOp.op = "configure"
  /\ lastOp.raised
  /\ batch_size = 100
  /\ batch_timeout_ms = 5000
  /\ max_concurrent_requests = 200

\* C25: the count handed to process_batch_requests_enhanced is the number
\* of requests copied into the snapshot, so the executor visits no slot
\* that was not filled from the queue.
C25_CountMatchesSnapshot ==
  workerPc \in {"setup", "poll", "store", "finish"} =>
    execCount = Len(req_array)

\* C26: no request that its caller has freed is still linked in the list
\* of the context.
C26_NoFreedRequestInQueue == \A c \in Callers : c \in freed => ~InQueue(c)

\* C27: with the store reachable, a batch submit that starts from counters
\* with total_requests = cache_hits + cache_misses leaves them so, and
\* adds one request, and one hit or miss, per item of the array.
C27_BatchCountsEachItemOnce ==
  [][\A m \in CacheModels, inputs \in InputArrays, ttl \in 0..MaxTtl :
     \A ch \in BatchChoices(inputs) :
       (/\ lastOp'.op = "batch"
        /\ ~lastOp'.raised
        /\ ch.spi
        /\ cache_stats.total_requests =
             cache_stats.cache_hits + cache_stats.cache_misses
        /\ ai_batch_invoke_cached(m, inputs, ttl, ch)) =>
         /\ cache_stats'.total_requests =
              cache_stats'.cache_hits + cache_stats'.cache_misses
         /\ cache_stats'.total_requests - cache_stats.total_requests
              \in {Len(inputs), Cardinality(NonNull(inputs))}]_vars

\* C28: a cached submit that is served from the cache is served from a row
\* stored by a submit with the same model name and the same arguments.
C28_HitIsForSameArguments ==
  [][\A m \in CacheModels, a \in ArgsSet, ttl \in 1..MaxTtl :
     \A spi \in SessionOutcomes(ttl) :
       \A env \in InvokeChoices(m, a, ttl, spi) :
         (/\ lastOp'.op = "invoke"
          /\ ~lastOp'.upstream
          /\ ai_invoke_model_cached(m, a, ttl, spi, env.up, env.dangling)) =>
           /\ stored[KeyOf(m, a)].present
           /\ stored[KeyOf(m, a)].args = a]_vars

=============================================================================
